---- MODULE Spec2Model ----
(***************************************************************************)
(* Model of the CentralInstance external client of provider-redhat:       *)
(* getCondition, isUpToDate, generateObservation and the four lifecycle    *)
(* handlers Observe, Create, Update and Delete of the "external" type,     *)
(* run against a fleet-manager client whose answers are arbitrary.         *)
(***************************************************************************)
EXTENDS Integers, Sequences, FiniteSets, TLC

\* ------------------------------------------------------------------ bounds
\* Largest reading of the wall clock (metav1.Now) the model explores.
MaxTime == 1

\* --------------------------------------------------------------- constants
CentralRequestStatusAccepted == "accepted"
CentralRequestStatusPreparing == "preparing"
CentralRequestStatusProvisioning == "provisioning"
CentralRequestStatusReady == "ready"
CentralRequestStatusFailed == "failed"
CentralRequestStatusDeprovision == "deprovision"
CentralRequestStatusDeleting == "deleting"

errNotCentralInstance == "managed resource is not a CentralInstance custom resource"
errTrackPCUsage == "cannot track ProviderConfig usage"
errGetPC == "cannot get ProviderConfig"
errGetCreds == "cannot get credentials"
errNewClient == "cannot create rhacs client"
errGetFailed == "cannot get central instance"
errCreateFailed == "cannot create central instance"
errUpdateFailed == "cannot update central instance"
errDeleteFailed == "cannot delete central instance"

\* http.StatusNotFound
StatusNotFound == 404

\* ------------------------------------------------------------- input sets
\* The seven wire-level tokens, the empty token and an unrecognized one.
StatusTokens ==
  { CentralRequestStatusAccepted, CentralRequestStatusPreparing,
    CentralRequestStatusProvisioning, CentralRequestStatusReady,
    CentralRequestStatusFailed, CentralRequestStatusDeprovision,
    CentralRequestStatusDeleting, "", "suspended" }

Names == {"test-central", "new-name"}
CloudProviders == {"aws", "gcp"}
Regions == {"us-east-1", "eu-west-1"}
CloudAccountIDs == {"", "acct-1"}
Ids == {"test-id", "other-id"}

\* A *http.Response is nil or carries a status code.
NilResp == 0

\* error values: nil, or the chain of messages from outermost to innermost.
NilErr == << >>

\* errors.New(msg)
New(msg) == << msg >>

\* errors.Wrap(err, msg): nil stays nil, otherwise msg is put in front.
Wrap(err, msg) == IF err = NilErr THEN NilErr ELSE << msg >> \o err

\* public.CentralRequest{}: the zero value of the remote record.
ZeroCentralRequest ==
  [ CentralDataURL |-> "", CentralUIURL |-> "", CloudAccountId |-> "",
    CloudProvider |-> "", CreatedAt |-> 0, FailedReason |-> "", Href |-> "",
    Id |-> "", InstanceType |-> "", Kind |-> "", MultiAz |-> FALSE,
    Name |-> "", Owner |-> "", Region |-> "", Status |-> "",
    UpdatedAt |-> 0, Version |-> "" ]

\* A remote record; v selects one of two settings of the descriptive fields,
\* each field getting a value no other field has.
CentralRequest(name, cp, region, maz, acct, status, id, v) ==
  [ CentralDataURL |-> IF v = 1 THEN "data-1" ELSE "data-2",
    CentralUIURL |-> IF v = 1 THEN "ui-1" ELSE "ui-2",
    CloudAccountId |-> acct,
    CloudProvider |-> cp,
    CreatedAt |-> IF v = 1 THEN 11 ELSE 12,
    FailedReason |-> IF v = 1 THEN "" ELSE "quota",
    Href |-> IF v = 1 THEN "href-1" ELSE "href-2",
    Id |-> id,
    InstanceType |-> IF v = 1 THEN "eval" ELSE "standard",
    Kind |-> IF v = 1 THEN "CentralRequest" ELSE "Central",
    MultiAz |-> maz,
    Name |-> name,
    Owner |-> IF v = 1 THEN "owner-1" ELSE "owner-2",
    Region |-> region,
    Status |-> status,
    UpdatedAt |-> IF v = 1 THEN 21 ELSE 22,
    Version |-> IF v = 1 THEN "v1" ELSE "v2" ]

\* Every remote record over the input sets.
CentralRequests ==
  { CentralRequest(n, cp, rg, maz, acct, st, id, v) :
      n \in Names, cp \in CloudProviders, rg \in Regions, maz \in BOOLEAN,
      acct \in CloudAccountIDs, st \in StatusTokens, id \in Ids, v \in 1..2 }

\* v1alpha1.CentralInstanceParameters over the input sets.
Parameters ==
  [ Name : Names, CloudProvider : CloudProviders, Region : Regions,
    MultiAZ : BOOLEAN, CloudAccountID : CloudAccountIDs ]

\* ------------------------------------------------- xpv1 conditions (Ready)
TypeReady == "Ready"

\* xpv1.Creating(), Available(), Deleting(), Unavailable() at clock reading t.
Creating(t) ==
  [ Type |-> TypeReady, Status |-> "False", LastTransitionTime |-> t,
    Reason |-> "Creating" ]
Available(t) ==
  [ Type |-> TypeReady, Status |-> "True", LastTransitionTime |-> t,
    Reason |-> "Available" ]
Deleting(t) ==
  [ Type |-> TypeReady, Status |-> "False", LastTransitionTime |-> t,
    Reason |-> "Deleting" ]
Unavailable(t) ==
  [ Type |-> TypeReady, Status |-> "False", LastTransitionTime |-> t,
    Reason |-> "Unavailable" ]

\* Condition.Equal: every field but LastTransitionTime.
Equal(a, b) ==
  a.Type = b.Type /\ a.Status = b.Status /\ a.Reason = b.Reason

\* SetConditions that never replaces a stored condition of the same type.
SetConditionsKeepStored(conds, c) ==
  IF \E i \in 1..Len(conds) : conds[i].Type = c.Type
    THEN conds
    ELSE Append(conds, c)

\* cr.SetConditions(c) on the sequence of stored conditions: a stored
\* condition of the same type is kept when Equal, replaced otherwise; a new
\* type is appended.
SetConditions(conds, c) ==
  IF \E i \in 1..Len(conds) : conds[i].Type = c.Type
    THEN [ i \in 1..Len(conds) |->
             IF conds[i].Type = c.Type /\ ~Equal(conds[i], c)
               THEN c ELSE conds[i] ]
    ELSE Append(conds, c)

\* cr.GetCondition(ct): the stored condition of that type, or an Unknown one.
GetCondition(conds, ct) ==
  IF \E i \in 1..Len(conds) : conds[i].Type = ct
    THEN conds[CHOOSE i \in 1..Len(conds) : conds[i].Type = ct]
    ELSE [ Type |-> ct, Status |-> "Unknown", LastTransitionTime |-> 0,
           Reason |-> "" ]

\* ---------------------------------------------------------- pure functions
\* metav1.NewTime(t): the time wrapped in a metav1.Time.
NewTime(t) == [ Time |-> t ]

\* generateObservation with UpdatedAt filled from CreatedAt.
generateObservationStaleUpdatedAt(in) ==
  [ CentralDataURL |-> in.CentralDataURL,
    CentralUIURL |-> in.CentralUIURL,
    CloudAccountID |-> in.CloudAccountId,
    CloudProvider |-> in.CloudProvider,
    CreatedAt |-> NewTime(in.CreatedAt),
    FailedReason |-> in.FailedReason,
    HRef |-> in.Href,
    ID |-> in.Id,
    InstanceType |-> in.InstanceType,
    Kind |-> in.Kind,
    MultiAZ |-> in.MultiAz,
    Name |-> in.Name,
    Owner |-> in.Owner,
    Region |-> in.Region,
    Status |-> in.Status,
    UpdatedAt |-> NewTime(in.CreatedAt),
    Version |-> in.Version ]

generateObservation(in) ==
  [ CentralDataURL |-> in.CentralDataURL,
    CentralUIURL |-> in.CentralUIURL,
    CloudAccountID |-> in.CloudAccountId,
    CloudProvider |-> in.CloudProvider,
    CreatedAt |-> NewTime(in.CreatedAt),
    FailedReason |-> in.FailedReason,
    HRef |-> in.Href,
    ID |-> in.Id,
    InstanceType |-> in.InstanceType,
    Kind |-> in.Kind,
    MultiAZ |-> in.MultiAz,
    Name |-> in.Name,
    Owner |-> in.Owner,
    Region |-> in.Region,
    Status |-> in.Status,
    UpdatedAt |-> NewTime(in.UpdatedAt),
    Version |-> in.Version ]

\* getCondition without the deprovision/deleting case.
getConditionNoDeleting(status, t) ==
  CASE status \in { CentralRequestStatusAccepted,
                    CentralRequestStatusPreparing,
                    CentralRequestStatusProvisioning } -> Creating(t)
    [] status = CentralRequestStatusReady -> Available(t)
    [] OTHER -> Unavailable(t)

getCondition(status, t) ==
  CASE status \in { CentralRequestStatusAccepted,
                    CentralRequestStatusPreparing,
                    CentralRequestStatusProvisioning } -> Creating(t)
    [] status = CentralRequestStatusReady -> Available(t)
    [] status \in { CentralRequestStatusDeprovision,
                    CentralRequestStatusDeleting } -> Deleting(t)
    [] OTHER -> Unavailable(t)

\* The fields of CentralInstanceParameters that the handlers read.
ParameterFields == << "CloudAccountID", "CloudProvider", "MultiAZ", "Name", "Region" >>

\* cmp.Diff(x, y, cmpopts.EquateEmpty()) on two CentralInstanceParameters:
\* the report lists the fields whose values differ, and is empty when none
\* does. EquateEmpty only concerns slices and maps, which the struct lacks.
Diff(x, y) ==
  SelectSeq(ParameterFields, LAMBDA f : x[f] # y[f])

\* isUpToDate that also reports a remote record that is not ready as drift.
isUpToDateOnlyWhenReady(in, observed) ==
  LET observedParams ==
        [ Name |-> observed.Name,
          CloudProvider |-> observed.CloudProvider,
          Region |-> observed.Region,
          MultiAZ |-> observed.MultiAz,
          CloudAccountID |-> "" ]
      diff == Diff(in.Spec.ForProvider, observedParams)
                \o (IF observed.Status # CentralRequestStatusReady
                      THEN << "Status" >> ELSE << >>)
  IN  IF diff # << >>
        THEN [ upToDate |-> FALSE,
               diff |-> << "Observed difference in central instance" >> \o diff ]
        ELSE [ upToDate |-> TRUE, diff |-> << >> ]

\* isUpToDate that returns no diff text with a false flag.
isUpToDateNoDiffText(in, observed) ==
  LET observedParams ==
        [ Name |-> observed.Name,
          CloudProvider |-> observed.CloudProvider,
          Region |-> observed.Region,
          MultiAZ |-> observed.MultiAz,
          CloudAccountID |-> "" ]
      diff == Diff(in.Spec.ForProvider, observedParams)
  IN  IF diff # << >>
        THEN [ upToDate |-> FALSE, diff |-> << >> ]
        ELSE [ upToDate |-> TRUE, diff |-> << >> ]

isUpToDate(in, observed) ==
  LET observedParams ==
        [ Name |-> observed.Name,
          CloudProvider |-> observed.CloudProvider,
          Region |-> observed.Region,
          MultiAZ |-> observed.MultiAz,
          CloudAccountID |-> "" ]
      diff == Diff(in.Spec.ForProvider, observedParams)
  IN  IF diff # << >>
        THEN [ upToDate |-> FALSE,
               diff |-> << "Observed difference in central instance" >> \o diff ]
        ELSE [ upToDate |-> TRUE, diff |-> << >> ]

\* ------------------------------------------------------------------- state
VARIABLES
  cr,    \* the CentralInstance handed to the handlers: Spec.ForProvider,
         \* the external-name annotation, Status.AtProvider, the conditions
  now,   \* the reading metav1.Now() returns
  last,  \* the latest handler invocation: its inputs, remote calls, results
  fn,    \* inputs and results of the pure functions (SpecFn only)
  remote, \* the entities the fleet manager holds (SpecRemote, SpecHost only)
  cr2    \* a second managed resource (SpecTwo only)

vars == << cr, now, last, fn, remote, cr2 >>

\* The fixture's desired parameters (centralInstance() in the tests).
fixtureParameters ==
  [ Name |-> "test-central", CloudProvider |-> "aws", Region |-> "us-east-1",
    MultiAZ |-> TRUE, CloudAccountID |-> "" ]

\* The fixture's remote record (centralRequest() in the tests).
fixtureRequest ==
  CentralRequest("test-central", "aws", "us-east-1", TRUE, "",
                 CentralRequestStatusReady, "test-id", 1)

\* Remote records the handler runs draw from: the fixture's record under
\* either name, every status and either identifier; the record with the
\* other identifier carries the other descriptive fields and account.
RunRequests ==
  { r \in CentralRequests :
      /\ r.CloudProvider = fixtureRequest.CloudProvider
      /\ r.Region = fixtureRequest.Region
      /\ r.MultiAz = fixtureRequest.MultiAz
      /\ \/ r.Id = "test-id" /\ r.Version = "v1" /\ r.CloudAccountId = ""
         \/ r.Id = "other-id" /\ r.Version = "v2" /\ r.CloudAccountId = "acct-1" }

\* Desired parameters the handler runs start from.
RunParameters ==
  { fixtureParameters, [fixtureParameters EXCEPT !.CloudAccountID = "acct-1"] }

\* Answers of client.GetCentralById: (centralResp, resp, err). A failing get
\* comes with no response, with a 404 or with another status code.
GetAnswers ==
  [ centralResp : RunRequests, resp : {NilResp}, err : {NilErr} ]
  \cup
  { [ centralResp |-> ZeroCentralRequest, resp |-> NilResp,
      err |-> New("remote error") ],
    [ centralResp |-> ZeroCentralRequest, resp |-> StatusNotFound,
      err |-> New("remote error") ],
    [ centralResp |-> fixtureRequest, resp |-> 500,
      err |-> New("remote error") ] }

\* Answers of client.CreateCentral: (centralResp, _, err).
CreateAnswers ==
  [ centralResp : { [fixtureRequest EXCEPT
                       !.Status = CentralRequestStatusAccepted, !.Id = id] :
                    id \in Ids },
    err : {NilErr, New("remote error")} ]

\* Answers of client.DeleteCentralById: (_, err).
DeleteAnswers == [ err : {NilErr, New("remote error")} ]

\* The zero v1alpha1.CentralInstanceObservation.
ZeroObservation == generateObservation(ZeroCentralRequest)

\* managed.ExternalObservation{}
ZeroExternalObservation ==
  [ ResourceExists |-> FALSE, ResourceUpToDate |-> FALSE, Diff |-> << >> ]

\* meta.GetExternalName(cr), meta.SetExternalName(cr, name)
GetExternalName(c) == c.externalName
SetExternalName(c, name) == [c EXCEPT !.externalName = name]

\* ---------------------------------------------------------------- handlers
\* Each handler maps the resource c, the clock reading t, whether mg is a
\* *v1alpha1.CentralInstance (ok) and the client's answer to its outcome:
\* the resource afterwards, the remote calls issued, and what it returns.

\* resp != nil && resp.StatusCode == http.StatusNotFound
isNotFoundOnlyResponse(resp) == resp # NilResp

isNotFoundNever(resp) == FALSE

isNotFound(resp) == resp # NilResp /\ resp = StatusNotFound

Observe(c, t, ok, ans) ==
  IF ~ok
    THEN [ cr |-> c, calls |-> << >>, obs |-> ZeroExternalObservation,
           err |-> New(errNotCentralInstance) ]
    ELSE
      LET call == [ op |-> "GetCentralById", id |-> GetExternalName(c) ]
      IN  IF ans.err # NilErr
            THEN IF isNotFound(ans.resp)
                   THEN [ cr |-> c, calls |-> << call >>,
                          obs |-> [ ZeroExternalObservation
                                      EXCEPT !.ResourceExists = FALSE ],
                          err |-> NilErr ]
                   ELSE [ cr |-> c, calls |-> << call >>,
                          obs |-> ZeroExternalObservation,
                          err |-> Wrap(ans.err, errGetFailed) ]
            ELSE
              LET c1 == [c EXCEPT !.AtProvider =
                                     generateObservation(ans.centralResp)]
                  condition == getCondition(c1.AtProvider.Status, t)
                  c2 == [c1 EXCEPT !.Conditions =
                                      SetConditions(c1.Conditions, condition)]
                  u == isUpToDate(c2, ans.centralResp)
              IN  [ cr |-> c2, calls |-> << call >>,
                    obs |-> [ ResourceExists |-> TRUE,
                              ResourceUpToDate |-> u.upToDate,
                              Diff |-> u.diff ],
                    err |-> NilErr ]

\* Create that binds the identifier of the response without looking at err.
CreateBindsAlways(c, t, ok, ans) ==
  IF ~ok
    THEN [ cr |-> c, calls |-> << >>, err |-> New(errNotCentralInstance) ]
    ELSE
      LET c1 == [c EXCEPT !.Conditions = SetConditions(c.Conditions, Creating(t))]
          request == [ CloudAccountId |-> c1.Spec.ForProvider.CloudAccountID,
                       CloudProvider |-> c1.Spec.ForProvider.CloudProvider,
                       MultiAz |-> c1.Spec.ForProvider.MultiAZ,
                       Name |-> c1.Spec.ForProvider.Name,
                       Region |-> c1.Spec.ForProvider.Region ]
          call == [ op |-> "CreateCentral", async |-> TRUE, request |-> request,
                    conditions |-> c1.Conditions ]
          c2 == SetExternalName(c1, ans.centralResp.Id)
      IN  [ cr |-> c2, calls |-> << call >>,
            err |-> Wrap(ans.err, errCreateFailed) ]

\* Create that sets the Creating condition only after the remote call.
CreateSetsConditionLate(c, t, ok, ans) ==
  IF ~ok
    THEN [ cr |-> c, calls |-> << >>, err |-> New(errNotCentralInstance) ]
    ELSE
      LET request == [ CloudAccountId |-> c.Spec.ForProvider.CloudAccountID,
                       CloudProvider |-> c.Spec.ForProvider.CloudProvider,
                       MultiAz |-> c.Spec.ForProvider.MultiAZ,
                       Name |-> c.Spec.ForProvider.Name,
                       Region |-> c.Spec.ForProvider.Region ]
          call == [ op |-> "CreateCentral", async |-> TRUE, request |-> request,
                    conditions |-> c.Conditions ]
          c1 == [c EXCEPT !.Conditions = SetConditions(c.Conditions, Creating(t))]
          c2 == IF ans.err = NilErr
                  THEN SetExternalName(c1, ans.centralResp.Id)
                  ELSE c1
      IN  [ cr |-> c2, calls |-> << call >>,
            err |-> Wrap(ans.err, errCreateFailed) ]

Create(c, t, ok, ans) ==
  IF ~ok
    THEN [ cr |-> c, calls |-> << >>, err |-> New(errNotCentralInstance) ]
    ELSE
      LET c1 == [c EXCEPT !.Conditions = SetConditions(c.Conditions, Creating(t))]
          request == [ CloudAccountId |-> c1.Spec.ForProvider.CloudAccountID,
                       CloudProvider |-> c1.Spec.ForProvider.CloudProvider,
                       MultiAz |-> c1.Spec.ForProvider.MultiAZ,
                       Name |-> c1.Spec.ForProvider.Name,
                       Region |-> c1.Spec.ForProvider.Region ]
          \* the call, with the conditions cr carries as it is issued
          call == [ op |-> "CreateCentral", async |-> TRUE, request |-> request,
                    conditions |-> c1.Conditions ]
          c2 == IF ans.err = NilErr
                  THEN SetExternalName(c1, ans.centralResp.Id)
                  ELSE c1
      IN  [ cr |-> c2, calls |-> << call >>,
            err |-> Wrap(ans.err, errCreateFailed) ]

\* Delete that issues the call a second time when the first one fails.
DeleteRetries(c, t, ok, ans) ==
  IF ~ok
    THEN [ cr |-> c, calls |-> << >>, err |-> New(errNotCentralInstance) ]
    ELSE
      LET call == [ op |-> "DeleteCentralById", id |-> c.AtProvider.ID,
                    async |-> TRUE ]
      IN  [ cr |-> c,
            calls |-> IF ans.err # NilErr THEN << call, call >> ELSE << call >>,
            err |-> Wrap(ans.err, errDeleteFailed) ]

\* Delete that reports success whatever the remote delete returned.
DeleteSwallowsError(c, t, ok, ans) ==
  IF ~ok
    THEN [ cr |-> c, calls |-> << >>, err |-> New(errNotCentralInstance) ]
    ELSE
      LET call == [ op |-> "DeleteCentralById", id |-> c.AtProvider.ID,
                    async |-> TRUE ]
      IN  [ cr |-> c, calls |-> << call >>, err |-> NilErr ]

Delete(c, t, ok, ans) ==
  IF ~ok
    THEN [ cr |-> c, calls |-> << >>, err |-> New(errNotCentralInstance) ]
    ELSE
      LET call == [ op |-> "DeleteCentralById", id |-> c.AtProvider.ID,
                    async |-> TRUE ]
      IN  [ cr |-> c, calls |-> << call >>,
            err |-> Wrap(ans.err, errDeleteFailed) ]

Update(c, t, ok, ans) ==
  IF ~ok
    THEN [ cr |-> c, calls |-> << >>, err |-> New(errNotCentralInstance) ]
    ELSE IF \/ GetCondition(c.Conditions, TypeReady) = Creating(t)
            \/ GetCondition(c.Conditions, TypeReady) = Deleting(t)
      THEN [ cr |-> c, calls |-> << >>, err |-> NilErr ]
      ELSE
        LET d == Delete(c, t, ok, ans)
        IN  [ cr |-> d.cr, calls |-> d.calls,
              err |-> Wrap(d.err, errUpdateFailed) ]

\* What Connect's collaborators answer: the usage tracker, the read of the
\* ProviderConfig, the credential extractor and rhacs.New; at most one fails.
ConnectAnswers ==
  { [ track |-> NilErr, get |-> NilErr, creds |-> NilErr, client |-> NilErr ],
    [ track |-> New("track error"), get |-> NilErr, creds |-> NilErr,
      client |-> NilErr ],
    [ track |-> NilErr, get |-> New("not found"), creds |-> NilErr,
      client |-> NilErr ],
    [ track |-> NilErr, get |-> NilErr, creds |-> New("no secret"),
      client |-> NilErr ],
    [ track |-> NilErr, get |-> NilErr, creds |-> NilErr,
      client |-> New("bad endpoint") ] }

\* Connect that tracks the ProviderConfig usage before it looks at the kind
\* of the resource.
ConnectTracksFirst(c, t, ok, ans) ==
  LET track == [ op |-> "Track" ]
      get == [ op |-> "Get" ]
      creds == [ op |-> "CommonCredentialExtractor" ]
      new == [ op |-> "rhacs.New" ]
  IN  IF ~ok
        THEN [ cr |-> c, calls |-> << track >>,
               err |-> New(errNotCentralInstance) ]
      ELSE IF ans.track # NilErr
        THEN [ cr |-> c, calls |-> << track >>,
               err |-> Wrap(ans.track, errTrackPCUsage) ]
      ELSE IF ans.get # NilErr
        THEN [ cr |-> c, calls |-> << track, get >>,
               err |-> Wrap(ans.get, errGetPC) ]
      ELSE IF ans.creds # NilErr
        THEN [ cr |-> c, calls |-> << track, get, creds >>,
               err |-> Wrap(ans.creds, errGetCreds) ]
      ELSE IF ans.client # NilErr
        THEN [ cr |-> c, calls |-> << track, get, creds, new >>,
               err |-> Wrap(ans.client, errNewClient) ]
      ELSE [ cr |-> c, calls |-> << track, get, creds, new >>,
             err |-> NilErr ]

\* connector.Connect: the steps that lead to a client, each one's failure
\* wrapped and returned.
Connect(c, t, ok, ans) ==
  LET track == [ op |-> "Track" ]
      get == [ op |-> "Get" ]
      creds == [ op |-> "CommonCredentialExtractor" ]
      new == [ op |-> "rhacs.New" ]
  IN  IF ~ok
        THEN [ cr |-> c, calls |-> << >>, err |-> New(errNotCentralInstance) ]
      ELSE IF ans.track # NilErr
        THEN [ cr |-> c, calls |-> << track >>,
               err |-> Wrap(ans.track, errTrackPCUsage) ]
      ELSE IF ans.get # NilErr
        THEN [ cr |-> c, calls |-> << track, get >>,
               err |-> Wrap(ans.get, errGetPC) ]
      ELSE IF ans.creds # NilErr
        THEN [ cr |-> c, calls |-> << track, get, creds >>,
               err |-> Wrap(ans.creds, errGetCreds) ]
      ELSE IF ans.client # NilErr
        THEN [ cr |-> c, calls |-> << track, get, creds, new >>,
               err |-> Wrap(ans.client, errNewClient) ]
      ELSE [ cr |-> c, calls |-> << track, get, creds, new >>,
             err |-> NilErr ]

\* ----------------------------------------------------------------- actions
NoCall == [ op |-> "none", ok |-> TRUE, ans |-> << >>,
            calls |-> << >>, obs |-> ZeroExternalObservation, err |-> NilErr ]

Init ==
  /\ \E p \in RunParameters, e \in {"", "test-central"} :
       cr = [ Spec |-> [ ForProvider |-> p ], externalName |-> e,
              AtProvider |-> ZeroObservation, Conditions |-> << >> ]
  /\ now = 0
  /\ last = NoCall
  /\ fn = << >>
  /\ cr2 = << >>
  /\ remote = {}

\* The host framework invokes Observe with a CentralInstance (any answer of
\* the client) or with a managed resource of another kind.
DoObserve ==
  \E ok \in BOOLEAN :
    \E ans \in IF ok THEN GetAnswers ELSE { << >> } :
      LET o == Observe(cr, now, ok, ans)
      IN  /\ cr' = o.cr
          /\ last' = [ op |-> "Observe", ok |-> ok, ans |-> ans,
                       calls |-> o.calls, obs |-> o.obs, err |-> o.err ]
          /\ UNCHANGED << now, fn, remote, cr2 >>

\* The host framework invokes Create with a CentralInstance (any answer of
\* the client) or with a managed resource of another kind.
DoCreate ==
  \E ok \in BOOLEAN :
    \E ans \in IF ok THEN CreateAnswers ELSE { << >> } :
      LET o == Create(cr, now, ok, ans)
      IN  /\ cr' = o.cr
          /\ last' = [ op |-> "Create", ok |-> ok, ans |-> ans,
                       calls |-> o.calls, obs |-> ZeroExternalObservation, err |-> o.err ]
          /\ UNCHANGED << now, fn, remote, cr2 >>

\* The host framework invokes Update with a CentralInstance (any answer of
\* the client) or with a managed resource of another kind.
DoUpdate ==
  \E ok \in BOOLEAN :
    \E ans \in IF ok THEN DeleteAnswers ELSE { << >> } :
      LET o == Update(cr, now, ok, ans)
      IN  /\ cr' = o.cr
          /\ last' = [ op |-> "Update", ok |-> ok, ans |-> ans,
                       calls |-> o.calls, obs |-> ZeroExternalObservation, err |-> o.err ]
          /\ UNCHANGED << now, fn, remote, cr2 >>

\* The host framework invokes Delete with a CentralInstance (any answer of
\* the client) or with a managed resource of another kind.
DoDelete ==
  \E ok \in BOOLEAN :
    \E ans \in IF ok THEN DeleteAnswers ELSE { << >> } :
      LET o == Delete(cr, now, ok, ans)
      IN  /\ cr' = o.cr
          /\ last' = [ op |-> "Delete", ok |-> ok, ans |-> ans,
                       calls |-> o.calls, obs |-> ZeroExternalObservation, err |-> o.err ]
          /\ UNCHANGED << now, fn, remote, cr2 >>

\* The host framework invokes Connect with a CentralInstance (any answer of
\* the collaborators) or with a managed resource of another kind.
DoConnect ==
  \E ok \in BOOLEAN :
    \E ans \in IF ok THEN ConnectAnswers ELSE { << >> } :
      LET o == Connect(cr, now, ok, ans)
      IN  /\ cr' = o.cr
          /\ last' = [ op |-> "Connect", ok |-> ok, ans |-> ans,
                       calls |-> o.calls, obs |-> ZeroExternalObservation, err |-> o.err ]
          /\ UNCHANGED << now, fn, remote, cr2 >>

\* Time passes between invocations.
Tick ==
  /\ now < MaxTime
  /\ now' = now + 1
  /\ UNCHANGED << cr, last, fn, remote, cr2 >>

Next == DoConnect \/ DoObserve \/ DoCreate \/ DoUpdate \/ DoDelete \/ Tick

Spec == Init /\ [][Next]_vars

\* ------------------------------------------------- the pure functions alone
\* Every desired parameter set and every remote record, before the Status
\* Mapper, the Drift Detector and generateObservation are applied to them.
InitFn ==
  /\ \E p \in Parameters :
       cr = [ Spec |-> [ ForProvider |-> p ], externalName |-> "test-central",
              AtProvider |-> ZeroObservation, Conditions |-> << >> ]
  /\ now = 0
  /\ last = NoCall
  /\ \E r \in CentralRequests : fn = [ observed |-> r, done |-> FALSE ]
  /\ cr2 = << >>
  /\ remote = {}

ApplyFn ==
  /\ fn.done = FALSE
  /\ LET u == isUpToDate(cr, fn.observed)
     IN  fn' = [ observed |-> fn.observed, done |-> TRUE,
                 condition |-> getCondition(fn.observed.Status, now),
                 observation |-> generateObservation(fn.observed),
                 upToDate |-> u.upToDate, diff |-> u.diff ]
  /\ UNCHANGED << cr, now, last, remote, cr2 >>

NextFn == ApplyFn

SpecFn == InitFn /\ [][NextFn]_vars

\* --------------------------------------------- a fleet manager with state
\* The remote side as section 6 describes it: entities keyed by identifier,
\* created as accepted, deleted asynchronously.

\* The entity with identifier id, if any.
Lookup(rem, id) == { e \in rem : e.Id = id }

\* Identifiers the fleet manager can hand out: it never hands one out twice,
\* so they are those no entity carries and the resource c holds no trace of.
FreeIds(rem, c) ==
  { id \in Ids :
      /\ Lookup(rem, id) = {}
      /\ id \notin { c.externalName, c.AtProvider.ID } }

\* The answer handed to a handler that issues no call.
NoAnswer == [ centralResp |-> ZeroCentralRequest, resp |-> NilResp, err |-> NilErr ]

\* The entity a create call with identifier id brings into being.
Created(request, id) ==
  CentralRequest(request.Name, request.CloudProvider, request.Region,
                 request.MultiAz, request.CloudAccountId,
                 CentralRequestStatusAccepted, id,
                 IF id = "test-id" THEN 1 ELSE 2)

\* What the client answers to a call; id is the identifier the fleet manager
\* assigns to a created entity ("" when it has none left).
RemoteAnswer(rem, call, id) ==
  CASE call.op = "GetCentralById" ->
         IF Lookup(rem, call.id) = {}
           THEN [ centralResp |-> ZeroCentralRequest, resp |-> StatusNotFound,
                  err |-> New("not found") ]
           ELSE [ centralResp |-> CHOOSE e \in Lookup(rem, call.id) : TRUE,
                  resp |-> 200, err |-> NilErr ]
    [] call.op = "CreateCentral" ->
         IF id = ""
           THEN [ centralResp |-> ZeroCentralRequest, resp |-> 500,
                  err |-> New("quota reached") ]
           ELSE [ centralResp |-> Created(call.request, id), resp |-> 200,
                  err |-> NilErr ]
    [] call.op = "DeleteCentralById" ->
         IF Lookup(rem, call.id) = {}
           THEN [ centralResp |-> ZeroCentralRequest, resp |-> StatusNotFound,
                  err |-> New("not found") ]
           ELSE [ centralResp |-> ZeroCentralRequest, resp |-> 200,
                  err |-> NilErr ]

\* A fleet manager that keeps one entity per name: a create for a name it
\* already holds adds nothing.
RemoteEffectOnePerName(rem, call, id) ==
  CASE call.op = "CreateCentral" ->
         IF id = "" \/ \E e \in rem : e.Name = call.request.Name
           THEN rem ELSE rem \cup { Created(call.request, id) }
    [] call.op = "DeleteCentralById" ->
         { IF e.Id = call.id
              /\ e.Status \notin { CentralRequestStatusDeprovision,
                                   CentralRequestStatusDeleting }
             THEN [e EXCEPT !.Status = CentralRequestStatusDeprovision]
             ELSE e : e \in rem }
    [] OTHER -> rem

\* The entities after a call: a create adds an accepted entity, a delete
\* marks a live entity deprovision, a get changes nothing.
RemoteEffect(rem, call, id) ==
  CASE call.op = "CreateCentral" ->
         IF id = "" THEN rem ELSE rem \cup { Created(call.request, id) }
    [] call.op = "DeleteCentralById" ->
         { IF e.Id = call.id
              /\ e.Status \notin { CentralRequestStatusDeprovision,
                                   CentralRequestStatusDeleting }
             THEN [e EXCEPT !.Status = CentralRequestStatusDeprovision]
             ELSE e : e \in rem }
    [] OTHER -> rem

\* The fleet manager works on one entity: a creation advances towards ready,
\* a deletion towards the entity's disappearance. l is what the step leaves
\* in last.
Progress(l) ==
  /\ \E e \in remote :
       \/ /\ e.Status = CentralRequestStatusAccepted
          /\ remote' = (remote \ {e})
                         \cup {[e EXCEPT !.Status = CentralRequestStatusPreparing]}
       \/ /\ e.Status = CentralRequestStatusPreparing
          /\ remote' = (remote \ {e})
                         \cup {[e EXCEPT !.Status = CentralRequestStatusProvisioning]}
       \/ /\ e.Status = CentralRequestStatusProvisioning
          /\ remote' = (remote \ {e})
                         \cup {[e EXCEPT !.Status = CentralRequestStatusReady]}
       \/ /\ e.Status = CentralRequestStatusDeprovision
          /\ remote' = (remote \ {e})
                         \cup {[e EXCEPT !.Status = CentralRequestStatusDeleting]}
       \/ /\ e.Status = CentralRequestStatusDeleting
          /\ remote' = remote \ {e}
  /\ last' = l
  /\ UNCHANGED << cr, now, fn, cr2 >>

\* Remote work the host does not see: last keeps the host's latest step.
RemoteProgress == Progress(last)

\* Remote work recorded as the latest event.
RemoteInterleaves == Progress([NoCall EXCEPT !.op = "RemoteProgress"])

\* The handler of the given name.
Handler(name, c, t, ok, ans) ==
  CASE name = "Observe" -> Observe(c, t, ok, ans)
    [] name = "Create" -> Create(c, t, ok, ans)
    [] name = "Update" -> Update(c, t, ok, ans)
    [] name = "Delete" -> Delete(c, t, ok, ans)

\* A handler invoked on cr with the fleet manager as the client: the call it
\* issues is answered from, and acts on, the entities.
Invoke(name, id) ==
  \E issued \in { Handler(name, cr, now, TRUE, NoAnswer).calls } :
  \E ans \in { IF issued = << >> THEN NoAnswer
               ELSE RemoteAnswer(remote, issued[1], id) } :
  \E o \in { Handler(name, cr, now, TRUE, ans) } :
    /\ cr' = o.cr
    /\ remote' = IF o.calls = << >> THEN remote
                 ELSE RemoteEffect(remote, o.calls[1], id)
    /\ last' = [ op |-> name, ok |-> TRUE, ans |-> ans, calls |-> o.calls,
                 obs |-> IF name = "Observe" THEN o.obs
                         ELSE ZeroExternalObservation,
                 err |-> o.err, after |-> last.op ]
    /\ UNCHANGED << now, fn, cr2 >>

\* The identifiers the fleet manager may assign to the next created entity.
Assignable(rem, c) ==
  IF FreeIds(rem, c) = {} THEN {""} ELSE FreeIds(rem, c)

RemoteObserve == Invoke("Observe", "")
RemoteCreate == \E id \in Assignable(remote, cr) : Invoke("Create", id)
RemoteUpdate == Invoke("Update", "")
RemoteDelete == Invoke("Delete", "")

\* Create whose remote call succeeds while the process stops before the host
\* stores the resource: the entity exists, the resource is as it was.
RemoteCreateLost ==
  \E id \in FreeIds(remote, cr) :
  \E o \in { Create(cr, now, TRUE, NoAnswer) } :
    /\ remote' = RemoteEffect(remote, o.calls[1], id)
    /\ last' = [ op |-> "CreateLost", ok |-> TRUE,
                 ans |-> RemoteAnswer(remote, o.calls[1], id),
                 calls |-> o.calls, obs |-> ZeroExternalObservation,
                 err |-> NilErr, after |-> last.op ]
    /\ UNCHANGED << cr, now, fn, cr2 >>

\* Handlers invoked in any order against a fleet manager that starts empty.
InitRemote ==
  /\ \E p \in RunParameters, e \in {"", "test-central"} :
       cr = [ Spec |-> [ ForProvider |-> p ], externalName |-> e,
              AtProvider |-> ZeroObservation, Conditions |-> << >> ]
  /\ now = 0
  /\ last = NoCall
  /\ fn = << >>
  /\ cr2 = << >>
  /\ remote = {}

NextRemote ==
  \/ RemoteObserve \/ RemoteCreate \/ RemoteUpdate \/ RemoteDelete
  \/ RemoteCreateLost \/ RemoteInterleaves \/ Tick

SpecRemote == InitRemote /\ [][NextRemote]_vars

\* ------------------------------------------------- resources of the tests
\* The handlers applied once to the resources the tests hand them: the
\* fixture with any observed status and any one Ready condition, or none.

\* centralInstance(withStatus(status), withConditions(conds...))
centralInstance(status, conds) ==
  [ Spec |-> [ ForProvider |-> fixtureParameters ],
    externalName |-> "test-central",
    AtProvider |-> [ ZeroObservation EXCEPT
                       !.CloudProvider = "aws", !.ID = "test-id",
                       !.MultiAZ = TRUE, !.Name = "test-central",
                       !.Region = "us-east-1", !.Status = status ],
    Conditions |-> conds ]

\* The conditions a test resource carries.
FixtureConditions ==
  { << >> } \cup
  UNION { { << Creating(t) >>, << Available(t) >>, << Deleting(t) >>,
            << Unavailable(t) >> } : t \in 0..MaxTime }

InitFixture ==
  /\ \E s \in StatusTokens, conds \in FixtureConditions :
       cr = centralInstance(s, conds)
  /\ now \in 0..MaxTime
  /\ last = NoCall
  /\ fn = << >>
  /\ cr2 = << >>
  /\ remote = {}

FixtureObserve == last.op = "none" /\ DoObserve
FixtureCreate == last.op = "none" /\ DoCreate
FixtureUpdate == last.op = "none" /\ DoUpdate
FixtureDelete == last.op = "none" /\ DoDelete

NextFixture ==
  FixtureObserve \/ FixtureCreate \/ FixtureUpdate \/ FixtureDelete

SpecFixture == InitFixture /\ [][NextFixture]_vars

\* ---------------------------------------------------------- two resources
\* The host reconciles two CentralInstances through the same external client:
\* a handler works on the resource mg points to.

\* The answers of the client to the call of the handler of the given name.
TwoAnswers(name) ==
  CASE name = "Observe" ->
         { [ centralResp |-> fixtureRequest, resp |-> NilResp, err |-> NilErr ],
           [ centralResp |-> ZeroCentralRequest, resp |-> StatusNotFound,
             err |-> New("remote error") ] }
    [] name = "Create" -> CreateAnswers
    [] OTHER -> DeleteAnswers

\* A handler that writes what it computed to every resource.
StoreShared(rs, i, c) == [ j \in DOMAIN rs |-> c ]

\* The resources after a handler invoked with resource i left it as c: the
\* handler writes through the pointer it was handed.
Store(rs, i, c) == [rs EXCEPT ![i] = c]

\* The handler of the given name invoked on resource i.
TwoInvoke(name, i) ==
  \E ans \in TwoAnswers(name) :
  \E o \in { Handler(name, << cr, cr2 >>[i], now, TRUE, ans) } :
  \E rs \in { Store(<< cr, cr2 >>, i, o.cr) } :
    /\ cr' = rs[1]
    /\ cr2' = rs[2]
    /\ last' = [ op |-> name, ok |-> TRUE, ans |-> ans, calls |-> o.calls,
                 obs |-> IF name = "Observe" THEN o.obs
                         ELSE ZeroExternalObservation,
                 err |-> o.err, res |-> i ]
    /\ UNCHANGED << now, fn, remote >>

TwoObserve == \E i \in {1, 2} : TwoInvoke("Observe", i)
TwoCreate == \E i \in {1, 2} : TwoInvoke("Create", i)
TwoUpdate == \E i \in {1, 2} : TwoInvoke("Update", i)
TwoDelete == \E i \in {1, 2} : TwoInvoke("Delete", i)

\* Two resources with different parameters, the second one already bound.
InitTwo ==
  /\ cr = [ Spec |-> [ ForProvider |-> fixtureParameters ],
            externalName |-> "", AtProvider |-> ZeroObservation,
            Conditions |-> << >> ]
  /\ cr2 = [ Spec |-> [ ForProvider |->
                          [fixtureParameters EXCEPT !.Name = "new-name"] ],
             externalName |-> "other-id", AtProvider |-> ZeroObservation,
             Conditions |-> << >> ]
  /\ now = 0
  /\ last = NoCall
  /\ fn = << >>
  /\ remote = {}

NextTwo == TwoObserve \/ TwoCreate \/ TwoUpdate \/ TwoDelete \/ Tick

SpecTwo == InitTwo /\ [][NextTwo]_vars

\* ------------------------------------------------- the host's reconcile loop
\* The host framework runs Observe, then Create when the entity is absent or
\* Update when it is not up to date; a failed step is followed by a new cycle.

ObservedAbsent(l) ==
  l.op = "Observe" /\ l.err = NilErr /\ ~l.obs.ResourceExists

ObservedDrift(l) ==
  /\ l.op = "Observe" /\ l.err = NilErr
  /\ l.obs.ResourceExists /\ ~l.obs.ResourceUpToDate

HostObserve ==
  /\ ~ObservedAbsent(last) /\ ~ObservedDrift(last)
  /\ RemoteObserve

HostCreate ==
  /\ ObservedAbsent(last)
  /\ RemoteCreate

HostUpdate ==
  /\ ObservedDrift(last)
  /\ RemoteUpdate

Reconcile == HostObserve \/ HostCreate \/ HostUpdate

\* The entities that differ from the desired parameters p in the name, the
\* provider, the region or the multi-AZ flag.
Drifted(p) ==
  { CentralRequest(n, c, r, m, p.CloudAccountID, CentralRequestStatusReady,
                   "test-id", 1) :
      << n, c, r, m >> \in
        { << "new-name", p.CloudProvider, p.Region, p.MultiAZ >>,
          << p.Name, "gcp", p.Region, p.MultiAZ >>,
          << p.Name, p.CloudProvider, "eu-west-1", p.MultiAZ >>,
          << p.Name, p.CloudProvider, p.Region, ~p.MultiAZ >> } }

\* A resource bound to a ready entity that has drifted from its parameters.
InitHost ==
  /\ \E p \in RunParameters :
       /\ cr = [ Spec |-> [ ForProvider |-> p ], externalName |-> "test-id",
                 AtProvider |-> ZeroObservation, Conditions |-> << >> ]
       /\ \E e \in Drifted(p) : remote = {e}
  /\ now = 0
  /\ last = NoCall
  /\ fn = << >>
  /\ cr2 = << >>

NextHost == HostObserve \/ HostCreate \/ HostUpdate \/ RemoteProgress \/ Tick

\* The host keeps reconciling and the fleet manager keeps working.
SpecHost ==
  /\ InitHost /\ [][NextHost]_vars
  /\ WF_vars(Reconcile) /\ WF_vars(RemoteProgress)

\* The reconcile loop started on a resource bound to an entity that matches
\* its parameters and has failed.
InitFailed ==
  /\ \E p \in RunParameters :
       /\ cr = [ Spec |-> [ ForProvider |-> p ], externalName |-> "test-id",
                 AtProvider |-> ZeroObservation, Conditions |-> << >> ]
       /\ remote = { CentralRequest(p.Name, p.CloudProvider, p.Region,
                                    p.MultiAZ, p.CloudAccountID,
                                    CentralRequestStatusFailed, "test-id", 1) }
  /\ now = 0
  /\ last = NoCall
  /\ fn = << >>
  /\ cr2 = << >>

SpecFailed ==
  /\ InitFailed /\ [][NextHost]_vars
  /\ WF_vars(Reconcile) /\ WF_vars(RemoteProgress)

\* ------------------------------------------------- the host's deletion loop
\* For a resource marked for removal the host runs Observe, then Delete while
\* Observe reports the entity; once Observe reports it absent the host lets
\* the resource go and calls nothing more.

ObservedExists(l) ==
  l.op = "Observe" /\ l.err = NilErr /\ l.obs.ResourceExists

DeletionObserve ==
  /\ ~ObservedAbsent(last) /\ ~ObservedExists(last)
  /\ RemoteObserve

DeletionDelete ==
  /\ ObservedExists(last)
  /\ RemoteDelete

Finalize == DeletionObserve \/ DeletionDelete

\* The statuses an entity may have when its resource is marked for removal.
StatusesAtRemoval ==
  { CentralRequestStatusAccepted, CentralRequestStatusReady,
    CentralRequestStatusFailed, CentralRequestStatusDeprovision,
    CentralRequestStatusDeleting }

\* A resource marked for removal: never created, or bound to an entity it
\* has observed or not.
InitDeletion ==
  /\ \E p \in RunParameters :
       \/ /\ cr = [ Spec |-> [ ForProvider |-> p ],
                    externalName |-> "test-central",
                    AtProvider |-> ZeroObservation, Conditions |-> << >> ]
          /\ remote = {}
       \/ \E s \in StatusesAtRemoval, observed \in BOOLEAN :
            LET e == CentralRequest(p.Name, p.CloudProvider, p.Region,
                                    p.MultiAZ, p.CloudAccountID, s,
                                    "test-id", 1)
            IN  /\ cr = [ Spec |-> [ ForProvider |-> p ],
                          externalName |-> "test-id",
                          AtProvider |-> IF observed
                                           THEN generateObservation(e)
                                           ELSE ZeroObservation,
                          Conditions |-> IF observed
                                           THEN << getCondition(s, 0) >>
                                           ELSE << >> ]
                /\ remote = {e}
  /\ now = 0
  /\ last = NoCall
  /\ fn = << >>
  /\ cr2 = << >>

NextDeletion == DeletionObserve \/ DeletionDelete \/ RemoteProgress \/ Tick

\* The host keeps finalizing and the fleet manager keeps working.
SpecDeletion ==
  /\ InitDeletion /\ [][NextDeletion]_vars
  /\ WF_vars(Finalize) /\ WF_vars(RemoteProgress)

\* ================================================================== claims
\* The latest invocation was an Observe of a CentralInstance whose get
\* succeeded, answered not-found, or failed otherwise.
ObserveSucceeded(l) == l.op = "Observe" /\ l.ok /\ l.ans.err = NilErr
ObserveNotFound(l) ==
  l.op = "Observe" /\ l.ok /\ l.ans.err # NilErr /\ l.ans.resp = 404
ObserveFailed(l) ==
  l.op = "Observe" /\ l.ok /\ l.ans.err # NilErr /\ l.ans.resp # 404

\* The Ready condition the resource carries.
Ready(c) == GetCondition(c.Conditions, TypeReady)

\* The table of section 4.1: the reason and status of the condition a
\* status token stands for.
TableReason(status) ==
  IF status \in {"accepted", "preparing", "provisioning"} THEN "Creating"
  ELSE IF status = "ready" THEN "Available"
  ELSE IF status \in {"deprovision", "deleting"} THEN "Deleting"
  ELSE "Unavailable"

TableStatus(status) == IF status = "ready" THEN "True" ELSE "False"

\* C1: getCondition maps accepted, preparing and provisioning to Creating,
\* ready to Available, deprovision and deleting to Deleting, and every other
\* token (failed, the empty token, an unrecognized token) to Unavailable; it
\* yields one of these four Ready conditions for every token.
C1_StatusMapper ==
  fn.done =>
    /\ fn.condition.Type = "Ready"
    /\ fn.condition.Reason = TableReason(fn.observed.Status)
    /\ fn.condition.Status = TableStatus(fn.observed.Status)
    /\ fn.condition.Reason \in {"Creating", "Available", "Deleting", "Unavailable"}

C1_Witness ==
  /\ fn.done
  /\ fn.observed.Status = "suspended"
  /\ fn.condition.Reason = "Unavailable"

\* C2: an Observe whose get answers not-found returns exists=false and a nil
\* error and leaves the observed state and the conditions as they were.
C2_ObserveNotFound ==
  [][ ObserveNotFound(last') =>
        /\ last'.obs.ResourceExists = FALSE
        /\ last'.err = NilErr
        /\ cr'.AtProvider = cr.AtProvider
        /\ cr'.Conditions = cr.Conditions ]_vars

C2_Witness ==
  /\ ObserveNotFound(last)
  /\ last.obs.ResourceExists = FALSE
  /\ cr.Conditions # << >>
  /\ cr.AtProvider.Status = "ready"
  /\ cr.externalName = "other-id"

\* C3: an Observe whose get fails with no response, or with a response whose
\* status is not 404, returns a non-nil error (the get failure, wrapped) and
\* exists=false, and leaves the observed state and the conditions unchanged.
C3_ObserveError ==
  [][ ObserveFailed(last') =>
        /\ last'.err # NilErr
        /\ Head(last'.err) = "cannot get central instance"
        /\ last'.obs.ResourceExists = FALSE
        /\ cr'.AtProvider = cr.AtProvider
        /\ cr'.Conditions = cr.Conditions ]_vars

C3_Witness ==
  /\ ObserveFailed(last)
  /\ last.ans.resp = 500
  /\ last.err # NilErr
  /\ cr.Conditions # << >>
  /\ cr.AtProvider.Status = "ready"

\* C4: after a successful Observe the Ready condition is the one the table
\* gives for the status token of that call's response, whatever condition
\* was stored before, and the result reports exists=true.
C4_ConditionFollowsStatus ==
  ObserveSucceeded(last) =>
    /\ Ready(cr).Reason = TableReason(last.ans.centralResp.Status)
    /\ Ready(cr).Status = TableStatus(last.ans.centralResp.Status)
    /\ last.obs.ResourceExists = TRUE

\* A stored Creating condition, set at an earlier clock reading, has become
\* Available on a ready answer.
C4_Witness ==
  /\ ObserveSucceeded(last)
  /\ last.ans.centralResp.Status = "ready"
  /\ Ready(cr).Reason = "Available"
  /\ Ready(cr).LastTransitionTime > 0

\* C5: after a successful Observe every field of the observed state equals
\* the value of that field in the response; nothing of an earlier
\* observation is left.
C5_ObservationReplaced ==
  ObserveSucceeded(last) =>
    LET a == cr.AtProvider
        r == last.ans.centralResp
    IN  /\ a.CentralDataURL = r.CentralDataURL
        /\ a.CentralUIURL = r.CentralUIURL
        /\ a.CloudAccountID = r.CloudAccountId
        /\ a.CloudProvider = r.CloudProvider
        /\ a.CreatedAt.Time = r.CreatedAt
        /\ a.FailedReason = r.FailedReason
        /\ a.HRef = r.Href
        /\ a.ID = r.Id
        /\ a.InstanceType = r.InstanceType
        /\ a.Kind = r.Kind
        /\ a.MultiAZ = r.MultiAz
        /\ a.Name = r.Name
        /\ a.Owner = r.Owner
        /\ a.Region = r.Region
        /\ a.Status = r.Status
        /\ a.UpdatedAt.Time = r.UpdatedAt
        /\ a.Version = r.Version
        /\ DOMAIN a = { "CentralDataURL", "CentralUIURL", "CloudAccountID",
                        "CloudProvider", "CreatedAt", "FailedReason", "HRef",
                        "ID", "InstanceType", "Kind", "MultiAZ", "Name",
                        "Owner", "Region", "Status", "UpdatedAt", "Version" }

\* C5 as a step: an observation of one remote record is replaced by the
\* observation of another that differs from it in every descriptive field.
C5_Witness ==
  /\ ObserveSucceeded(last)
  /\ last.ans.centralResp.Id = "other-id"
  /\ cr.AtProvider.ID = "other-id"
  /\ cr.AtProvider.FailedReason = "quota"
  /\ cr.AtProvider.Name = "new-name"

\* C6: with an empty external name Observe issues no remote call and
\* returns exists=false with a nil error.
C6_NoCallWhenUnbound ==
  (last.op = "Observe" /\ last.ok /\ cr.externalName = "") =>
    /\ last.calls = << >>
    /\ last.obs.ResourceExists = FALSE
    /\ last.err = NilErr

\* C7: isUpToDate returns true exactly when the desired and the observed
\* name, cloud provider, region and multi-AZ flag are pairwise equal.
C7_DriftOnFourFields ==
  fn.done =>
    ( fn.upToDate <=>
        /\ cr.Spec.ForProvider.Name = fn.observed.Name
        /\ cr.Spec.ForProvider.CloudProvider = fn.observed.CloudProvider
        /\ cr.Spec.ForProvider.Region = fn.observed.Region
        /\ cr.Spec.ForProvider.MultiAZ = fn.observed.MultiAz )

\* C8: comparing a desired specification with a remote record that reports
\* exactly its values yields up-to-date=true and an empty diff.
C8_DriftReflexive ==
  ( /\ fn.done
    /\ fn.observed.Name = cr.Spec.ForProvider.Name
    /\ fn.observed.CloudProvider = cr.Spec.ForProvider.CloudProvider
    /\ fn.observed.Region = cr.Spec.ForProvider.Region
    /\ fn.observed.MultiAz = cr.Spec.ForProvider.MultiAZ
    /\ fn.observed.CloudAccountId = cr.Spec.ForProvider.CloudAccountID )
  => ( fn.upToDate /\ fn.diff = << >> )

\* C9: after a successful Observe, observing the same response again under
\* any other status token returns the same up-to-date flag and diff, and the
\* condition it sets is the table's for that token, whether or not the
\* names match.
C9_UpToDateIgnoresStatus ==
  ObserveSucceeded(last) =>
    \A s \in StatusTokens :
      LET o == Observe(cr, now, TRUE,
                       [last.ans EXCEPT !.centralResp.Status = s])
      IN  /\ o.obs.ResourceUpToDate = last.obs.ResourceUpToDate
          /\ o.obs.Diff = last.obs.Diff
          /\ Ready(o.cr).Reason = TableReason(s)

\* The remote reports accepted under another name: Creating, not up to date.
C9_Witness ==
  /\ ObserveSucceeded(last)
  /\ last.ans.centralResp.Status = "accepted"
  /\ last.ans.centralResp.Name # cr.Spec.ForProvider.Name
  /\ last.obs.ResourceUpToDate = FALSE
  /\ Ready(cr).Reason = "Creating"

\* C10: Delete invoked while the observed status is deprovision or deleting
\* issues no remote delete call and returns a nil error.
C10_DeleteAbsorbed ==
  ( /\ last.op = "Delete" /\ last.ok
    /\ cr.AtProvider.Status \in {"deprovision", "deleting"} )
  => ( last.calls = << >> /\ last.err = NilErr )

\* C11: every Delete of a CentralInstance leaves the Ready condition equal to
\* Deleting, whether the remote delete succeeds or fails; it returns a
\* non-nil error when the remote delete fails and nil when it succeeds.
C11_DeleteSetsDeleting ==
  (last.op = "Delete" /\ last.ok) =>
    /\ Ready(cr).Reason = "Deleting"
    /\ (last.err # NilErr) <=> (last.ans.err # NilErr)

\* C12: an Update invoked while the Ready condition is Creating or Deleting
\* issues no remote call, changes no local state and returns a nil error.
C12_UpdateNoOpInFlight ==
  [][ ( /\ last'.op = "Update" /\ last'.ok
        /\ Ready(cr).Reason \in {"Creating", "Deleting"} )
      => ( last'.calls = << >> /\ cr' = cr /\ last'.err = NilErr ) ]_vars

\* C13: an Update invoked while the Ready condition is neither Creating nor
\* Deleting does what Delete does on the same resource: the same remote
\* delete call and the same local state afterwards, with the condition
\* Deleting; it returns nil when Delete returns nil and an update error when
\* Delete fails.
C13_UpdateIsDelete ==
  [][ ( /\ last'.op = "Update" /\ last'.ok
        /\ Ready(cr).Reason \notin {"Creating", "Deleting"} )
      => LET d == Delete(cr, now, TRUE, last'.ans)
         IN  /\ last'.calls = d.calls
             /\ Len(last'.calls) = 1
             /\ cr' = d.cr
             /\ Ready(cr').Reason = "Deleting"
             /\ (d.err = NilErr) => (last'.err = NilErr)
             /\ (d.err # NilErr) =>
                  (last'.err # NilErr
                   /\ Head(last'.err) = "cannot update central instance") ]_vars

\* C14: when the remote create call fails, Create returns a non-nil error
\* (the create failure, wrapped), leaves the external name as it was and
\* leaves the Ready condition equal to Creating.
C14_CreateFailure ==
  [][ (last'.op = "Create" /\ last'.ok /\ last'.ans.err # NilErr) =>
        /\ last'.err # NilErr
        /\ Head(last'.err) = "cannot create central instance"
        /\ cr'.externalName = cr.externalName
        /\ Ready(cr').Reason = "Creating" ]_vars

\* An unbound resource stays unbound after a failed create.
C14_Witness ==
  /\ last.op = "Create" /\ last.ok /\ last.ans.err # NilErr
  /\ last.err # NilErr
  /\ cr.externalName = ""
  /\ Ready(cr).Reason = "Creating"

\* C15: when the remote create call succeeds, Create returns a nil error,
\* the external name equals the identifier of that call's response and the
\* Ready condition is Creating; the condition is already Creating when the
\* remote call is issued.
C15_CreateSuccess ==
  (last.op = "Create" /\ last.ok /\ last.ans.err = NilErr) =>
    /\ last.err = NilErr
    /\ cr.externalName = last.ans.centralResp.Id
    /\ Ready(cr).Reason = "Creating"
    /\ Len(last.calls) = 1
    /\ last.calls[1].op = "CreateCentral"
    /\ GetCondition(last.calls[1].conditions, TypeReady).Reason = "Creating"

\* A create that replaced another Ready condition, at a later clock reading,
\* and bound the identifier of its response.
C15_Witness ==
  /\ last.op = "Create" /\ last.ok /\ last.ans.err = NilErr
  /\ cr.externalName = "other-id"
  /\ Ready(cr).Reason = "Creating"
  /\ Ready(cr).LastTransitionTime = 1

\* C16: once a successful Create has bound the external name to an
\* identifier, the external name never takes a different value.
C16_BoundOnce ==
  [][ cr.externalName \in Ids => cr'.externalName = cr.externalName ]_vars

\* C16, amended: once a successful Create has bound the external name to an
\* identifier, the external name changes only in a later successful Create,
\* which binds the identifier of its own response.
C16_BoundUntilNextCreate ==
  [][ (cr.externalName \in Ids /\ cr'.externalName # cr.externalName) =>
        /\ last'.op = "Create" /\ last'.ok /\ last'.ans.err = NilErr
        /\ cr'.externalName = last'.ans.centralResp.Id ]_vars

\* A second successful create has bound another identifier while the
\* observed state still shows the entity bound before.
C16_Witness ==
  /\ last.op = "Create" /\ last.ok /\ last.ans.err = NilErr
  /\ cr.externalName = "other-id"
  /\ cr.AtProvider.ID = "test-id"

\* C17: with an external name bound, every remote get and delete issued by
\* Observe, Update or Delete is addressed with exactly the external name.
C17_AddressedByExternalName ==
  ( /\ last.op \in {"Observe", "Update", "Delete"} /\ last.ok
    /\ cr.externalName # "" )
  => \A i \in 1..Len(last.calls) : last.calls[i].id = cr.externalName

\* C18: an invocation of Observe, Create, Update or Delete issues at most
\* one remote call; a failed call is not issued again.
C18_AtMostOneCall ==
  /\ last.op \in {"Observe", "Create", "Update", "Delete"} =>
       Len(last.calls) <= 1
  /\ last.op = "Observe" =>
       \A i \in 1..Len(last.calls) : last.calls[i].op = "GetCentralById"
  /\ last.op = "Create" =>
       \A i \in 1..Len(last.calls) : last.calls[i].op = "CreateCentral"
  /\ last.op \in {"Update", "Delete"} =>
       \A i \in 1..Len(last.calls) : last.calls[i].op = "DeleteCentralById"

\* An Update whose delegated delete failed: one call, not repeated.
C18_Witness ==
  /\ last.op = "Update" /\ last.ok
  /\ last.ans.err # NilErr
  /\ Len(last.calls) = 1
  /\ last.err # NilErr

\* C19: invoking Observe, Create, Update or Delete a second time, with no
\* other handler in between, leaves the local state and the set of remote
\* entities (with their pending deletions) as the first invocation left them.
C19_Idempotent ==
  [][ ( \/ last.op = "Observe" /\ RemoteObserve
        \/ last.op = "Create" /\ RemoteCreate
        \/ last.op = "Update" /\ RemoteUpdate
        \/ last.op = "Delete" /\ RemoteDelete )
      => ( cr' = cr /\ remote' = remote ) ]_vars

\* The last call was an Observe that found the entity, created from the
\* desired parameters, and reported it up to date.
Converged ==
  /\ ObserveSucceeded(last)
  /\ last.obs.ResourceExists /\ last.obs.ResourceUpToDate
  /\ last.ans.centralResp.Name = cr.Spec.ForProvider.Name
  /\ last.ans.centralResp.CloudProvider = cr.Spec.ForProvider.CloudProvider
  /\ last.ans.centralResp.Region = cr.Spec.ForProvider.Region
  /\ last.ans.centralResp.MultiAz = cr.Spec.ForProvider.MultiAZ

\* The last handler issued a remote create or delete.
IssuedCreateOrDelete ==
  \E i \in DOMAIN last.calls :
    last.calls[i].op \in {"CreateCentral", "DeleteCentralById"}

\* C20: from a drifted entity, a host that keeps reconciling against a fleet
\* manager that completes its work eventually observes an up-to-date entity
\* created from the desired parameters, and issues no create or delete after.
C20_DriftConverges == <>(Converged /\ [](~IssuedCreateOrDelete))

\* The entities no identifier of the resource refers to and no delete has
\* been accepted for.
Orphans ==
  { e \in remote :
      /\ e.Id # cr.externalName
      /\ e.Id # cr.AtProvider.ID
      /\ e.Status \notin { CentralRequestStatusDeprovision,
                           CentralRequestStatusDeleting } }

\* C21: a Create that succeeds after a Create whose binding was lost creates
\* a second remote entity and leaves the first one referenced by no local
\* identifier.
C21_RetryOrphans ==
  [][ ( /\ last.op = "CreateLost"
        /\ last'.op = "Create" /\ last'.err = NilErr )
      => /\ Cardinality(remote') = Cardinality(remote) + 1
         /\ last.ans.centralResp.Id # last'.ans.centralResp.Id
         /\ \E e \in Orphans' : e.Id = last.ans.centralResp.Id ]_vars

\* The retried Create succeeded: two entities, the first one orphaned.
C21_Witness ==
  /\ last.op = "Create" /\ last.after = "CreateLost" /\ last.err = NilErr
  /\ Cardinality(remote) = 2
  /\ cr.externalName = last.ans.centralResp.Id
  /\ Orphans # {}

\* C22: Observe, Create, Update, Delete or Connect handed a resource of
\* another kind returns the wrong-kind error, issues no call and changes
\* nothing of the resource.
C22_WrongKind ==
  [][ ~last'.ok =>
        /\ last'.op \in {"Observe", "Create", "Update", "Delete", "Connect"}
        /\ last'.err = New(errNotCentralInstance)
        /\ last'.calls = << >>
        /\ cr' = cr ]_vars

\* Connect handed another kind for a resource that is bound and observed.
C22_Witness ==
  /\ last.op = "Connect" /\ ~last.ok
  /\ last.err = << errNotCentralInstance >>
  /\ cr.externalName \in Ids
  /\ cr.Conditions # << >>

InFlight ==
  { CentralRequestStatusAccepted, CentralRequestStatusPreparing,
    CentralRequestStatusProvisioning, CentralRequestStatusDeprovision,
    CentralRequestStatusDeleting }

\* C24: an Update that is the next handler after a successful Observe which
\* recorded accepted, preparing, provisioning, deprovision or deleting issues
\* no remote delete call.
C24_NoDeleteInFlight ==
  [][ ( /\ ObserveSucceeded(last)
        /\ last.ans.centralResp.Status \in InFlight
        /\ last'.op = "Update" /\ last'.ok )
      => \A i \in DOMAIN last'.calls :
           last'.calls[i].op # "DeleteCentralById" ]_vars

\* C26: once a successful Observe has recorded deprovision or deleting, no
\* Delete or Update issues a remote delete call until an Observe records
\* another status.
C26_RedundantDeletesAbsorbed ==
  ( /\ last.op \in {"Delete", "Update"} /\ last.ok
    /\ cr.AtProvider.Status \in { CentralRequestStatusDeprovision,
                                  CentralRequestStatusDeleting } )
  => \A i \in DOMAIN last.calls : last.calls[i].op # "DeleteCentralById"

\* C27: the diff text isUpToDate returns, and a successful Observe hands on,
\* is empty exactly when the up-to-date flag is true.
C27_DiffIffNotUpToDate ==
  ObserveSucceeded(last) =>
    LET u == isUpToDate(cr, last.ans.centralResp)
    IN  /\ u.upToDate <=> (u.diff = << >>)
        /\ last.obs.ResourceUpToDate = u.upToDate
        /\ last.obs.Diff = u.diff
        /\ last.obs.ResourceUpToDate <=> (last.obs.Diff = << >>)

\* The remote reports the ready entity under another name: not up to date,
\* with a diff, Available.
C27_Witness ==
  /\ ObserveSucceeded(last)
  /\ last.ans.centralResp.Name = "new-name"
  /\ last.ans.centralResp.Status = CentralRequestStatusReady
  /\ last.obs.ResourceExists /\ ~last.obs.ResourceUpToDate
  /\ last.obs.Diff # << >>
  /\ Ready(cr).Reason = "Available"

\* C28: Create and Delete return a non-nil error exactly when the remote
\* call they issued failed.
C28_ErrorIffCallFailed ==
  (last.op \in {"Create", "Delete"} /\ last.ok) =>
    /\ Len(last.calls) = 1
    /\ (last.err = NilErr) <=> (last.ans.err = NilErr)
    /\ last.ans.err # NilErr =>
         last.err = << IF last.op = "Create" THEN errCreateFailed
                       ELSE errDeleteFailed >> \o last.ans.err

\* A Delete whose remote call failed returns the wrapped error.
C28_Witness ==
  /\ last.op = "Delete" /\ last.ok
  /\ last.ans.err = << "remote error" >>
  /\ last.err = << errDeleteFailed, "remote error" >>
  /\ cr.AtProvider.ID \in Ids

\* C29: the payload of CreateCentral carries exactly the name, the cloud
\* provider, the region, the multi-AZ flag and the cloud-account id of the
\* parameters, and the entity made from it is up to date for isUpToDate.
C29_PayloadRoundTrip ==
  (last.op = "Create" /\ last.ok) =>
    LET request == last.calls[1].request
        p == cr.Spec.ForProvider
    IN  /\ DOMAIN request =
             {"Name", "CloudProvider", "Region", "MultiAz", "CloudAccountId"}
        /\ request.Name = p.Name
        /\ request.CloudProvider = p.CloudProvider
        /\ request.Region = p.Region
        /\ request.MultiAz = p.MultiAZ
        /\ request.CloudAccountId = p.CloudAccountID
        /\ isUpToDate(cr, Created(request, "test-id")).upToDate

\* The resource with every timestamp of its conditions set to t.
Retimed(c, t) ==
  [c EXCEPT !.Conditions =
     [ i \in DOMAIN c.Conditions |->
         [c.Conditions[i] EXCEPT !.LastTransitionTime = t] ]]

\* C30: Update issues the same remote calls and returns the same error for
\* two resources that differ only in when their condition was set.
C30_UpdateIgnoresTimestamp ==
  \A t \in 0..now :
    \A ans \in DeleteAnswers :
      LET a == Update(cr, now, TRUE, ans)
          b == Update(Retimed(cr, t), now, TRUE, ans)
      IN  a.calls = b.calls /\ a.err = b.err

\* C25: an Update of a resource whose observed status is deprovision and
\* which carries no condition issues no remote delete call, returns a nil
\* error and leaves the Ready condition equal to Deleting.
C25_UpdateNotReady ==
  [][ ( /\ last.op = "none"
        /\ cr.AtProvider.Status = CentralRequestStatusDeprovision
        /\ cr.Conditions = << >>
        /\ last'.op = "Update" /\ last'.ok )
      => /\ last'.calls = << >>
         /\ last'.err = NilErr
         /\ Ready(cr').Reason = "Deleting" ]_vars

\* C31: the external name changes only in a successful Create, which binds
\* the identifier of its response; Observe, Update, Delete and a failed
\* Create leave it as it was, and no handler changes the parameters.
C31_OnlyCreateBinds ==
  [][ /\ cr'.Spec = cr.Spec
      /\ cr'.externalName # cr.externalName =>
           /\ last'.op = "Create" /\ last'.ok /\ last'.ans.err = NilErr
           /\ cr'.externalName = last'.ans.centralResp.Id ]_vars

\* A Create failed on an observed resource although the answer named an
\* identifier: the external name is the one from before.
C31_Witness ==
  /\ last.op = "Create" /\ last.ok /\ last.ans.err # NilErr
  /\ last.ans.centralResp.Id = "other-id"
  /\ cr.externalName = "test-central"
  /\ cr.AtProvider.ID = "test-id"
  /\ cr.Spec.ForProvider = fixtureParameters

\* C32: against a fleet manager that answers get(id) with the entity whose
\* identifier is id, the identifier Delete sends is the external name bound
\* at that moment.
C32_DeleteSendsBoundIdentifier ==
  (last.op = "Delete" /\ last.ok) =>
    \A i \in DOMAIN last.calls :
      last.calls[i].op = "DeleteCentralById" =>
        last.calls[i].id = cr.externalName

\* C33: with an entity that has failed and matches the parameters, every
\* handler the reconcile loop invokes is an Observe that sets Unavailable,
\* reports the entity as existing and up to date, and issues neither a
\* create nor a delete.
C33_FailedNeverRepaired ==
  last.op # "none" =>
    /\ last.op = "Observe"
    /\ last.obs.ResourceExists /\ last.obs.ResourceUpToDate
    /\ Ready(cr).Reason = "Unavailable"
    /\ \A i \in DOMAIN last.calls : last.calls[i].op = "GetCentralById"

\* The last Observe was answered not-found and returned absence, no error.
Gone ==
  /\ last.op = "Observe" /\ last.ok
  /\ isNotFound(last.ans.resp)
  /\ ~last.obs.ResourceExists
  /\ last.err = NilErr

\* The last handler issued a remote delete.
IssuedDelete ==
  \E i \in DOMAIN last.calls : last.calls[i].op = "DeleteCentralById"

\* C34: for a resource marked for removal, a host that keeps running Observe
\* and then Delete against a fleet manager that completes its deletions
\* eventually gets absence with a nil error from Observe, and no remote
\* delete is issued after that.
C34_DeletionCompletes == <>(Gone /\ [](~IssuedDelete))

\* Observe found the entity gone after the host had deleted it.
C34_Witness ==
  /\ Gone
  /\ last.after = "Delete"
  /\ remote = {}
  /\ cr.AtProvider.ID = cr.externalName
  /\ cr.externalName = "test-id"

====
